---- MODULE Spec2Model ----
(***************************************************************************)
(* A model of wercker's container session (Session, ReadToChan, Attach,    *)
(* Send, SendChecked) and of its wercker.yml step parser                   *)
(* (RawStepConfig.UnmarshalYAML, ifaceToString).                           *)
(*                                                                         *)
(* Text is modelled as a sequence of atoms.  An atom is one character      *)
(* (" ", "\n", a digit, a letter) or an indivisible word such as "echo",   *)
(* "true", "$?" or a generated token.  Formatting and scanning work on     *)
(* these sequences, so a status goes through Itoa in the shell and through *)
(* Sscanf in SendChecked.                                                  *)
(***************************************************************************)
EXTENDS Integers, Sequences, FiniteSets, TLC

\* ------------------------------------------------------------------ bounds
\* Number of calls (Attach, Send, SendChecked) the calling task makes.
MaxCalls == 3
\* Longest command batch handed to Send / SendChecked.
MaxBatch == 2
\* Longest parameter list of a step in the parsed document.
MaxParams == 2
\* Longest list of steps under a key of a pipeline section.
MaxSteps == 2
\* Largest number of keys of a box, a pipeline section or a document.
MaxKeys == 2
\* Longest base-path, in path elements and separators.
MaxPath == 3

\* --------------------------------------------------------------- text
SP == " "
NL == "\n"

DigitChars == <<"0", "1", "2", "3", "4", "5", "6", "7", "8", "9">>

DigitVal(a) == (CHOOSE i \in 1..10 : DigitChars[i] = a) - 1

RECURSIVE ItoaNat(_)
ItoaNat(n) == IF n < 10 THEN <<DigitChars[n + 1]>>
              ELSE ItoaNat(n \div 10) \o <<DigitChars[(n % 10) + 1]>>

\* strconv.Itoa / the shell's expansion of $?: decimal text of an integer.
Itoa(n) == IF n < 0 THEN <<"-">> \o ItoaNat(0 - n) ELSE ItoaNat(n)

\* strings.HasPrefix as it would be were it strings.Contains.
HasInfix(s, p) ==
    \E i \in 1..(Len(s) + 1) :
        i + Len(p) - 1 <= Len(s) /\ SubSeq(s, i, i + Len(p) - 1) = p

\* strings.HasPrefix
HasPrefix(s, p) == /\ Len(p) <= Len(s)
                   /\ SubSeq(s, 1, Len(p)) = p

\* Length of the longest prefix of s, from position i, whose atoms are in S.
RECURSIVE RunLen(_, _, _)
RunLen(s, i, S) == IF i <= Len(s) /\ s[i] \in S THEN 1 + RunLen(s, i + 1, S)
                   ELSE 0

\* Length of the longest prefix of s, from position i, with no atom in S.
RECURSIVE RunLenNot(_, _, _)
RunLenNot(s, i, S) == IF i <= Len(s) /\ s[i] \notin S
                      THEN 1 + RunLenNot(s, i + 1, S)
                      ELSE 0

RECURSIVE AtoiNat(_)
AtoiNat(ds) == IF ds = <<>> THEN 0
               ELSE 10 * AtoiNat(SubSeq(ds, 1, Len(ds) - 1)) + DigitVal(ds[Len(ds)])

DigitSet == {DigitChars[i] : i \in 1..10}

\* Sscanf as it would behave were exitCode passed by value: the status
\* scanned is lost and the caller's exitCode keeps its old value.
SscanfNoStatus(line, old) ==
    LET w  == RunLenNot(line, 1, {SP, NL})
        s1 == w + 1 + RunLen(line, w + 1, {SP})
        d  == RunLen(line, s1, DigitSet)
    IN  [word |-> SubSeq(line, 1, w), code |-> old,
         err  |-> (d = 0 \/ (s1 + d <= Len(line) /\ line[s1 + d] # NL))]

\* Sscanf as it would behave were its error dropped.
SscanfNoError(line, old) ==
    LET w  == RunLenNot(line, 1, {SP, NL})
        s1 == w + 1 + RunLen(line, w + 1, {SP})
        d  == RunLen(line, s1, DigitSet)
    IN  [word |-> SubSeq(line, 1, w),
         code |-> IF d = 0 THEN old ELSE AtoiNat(SubSeq(line, s1, s1 + d - 1)),
         err  |-> FALSE]

\* fmt.Sscanf(line, "%s %d\n", &rand, &exitCode): the scanned word, the
\* scanned integer (old is kept when %d did not scan) and whether an error
\* was returned.
Sscanf(line, old) ==
    LET w   == RunLenNot(line, 1, {SP, NL})
        s1  == w + 1 + RunLen(line, w + 1, {SP})
        sg  == IF s1 <= Len(line) /\ line[s1] \in {"+", "-"} THEN 1 ELSE 0
        d   == RunLen(line, s1 + sg, DigitSet)
        e   == s1 + sg + d
        mag == AtoiNat(SubSeq(line, s1 + sg, e - 1))
        val == IF sg = 1 /\ line[s1] = "-" THEN 0 - mag ELSE mag
    IN  IF w = 0 THEN [word |-> <<>>, code |-> old, err |-> TRUE]
        ELSE IF d = 0 THEN [word |-> SubSeq(line, 1, w), code |-> old, err |-> TRUE]
        ELSE [word |-> SubSeq(line, 1, w), code |-> val,
              err  |-> (e <= Len(line) /\ line[e] # NL)]

\* ------------------------------------------------------- session: data
\* uuid.NewRandom().String(): the texts a random token can take.
Tokens == {<<"T1">>, <<"T2">>}

\* Commands the calling task hands to Send / SendChecked.
Commands == { <<"true">>, <<"false">>, <<"nosuch">>,
              <<"echo", SP, "a">>,
              <<"echo", SP, "T1">>,
              <<"echo", SP, "T1", SP, "7">>,
              <<"echo", SP, "a", SP, "T1">> }

RECURSIVE SeqsUpTo(_, _)
SeqsUpTo(S, n) == IF n = 0 THEN {<<>>}
                  ELSE LET shorter == SeqsUpTo(S, n - 1)
                       IN  shorter \cup {Append(q, x) : q \in shorter, x \in S}

Batches == SeqsUpTo(Commands, MaxBatch)

\* The sentinel command as it would be without the $?.
SentinelCommandNoStatus(tok) == <<"echo", SP>> \o tok

\* fmt.Sprintf("echo %s $?", rand)
SentinelCommand(tok) == <<"echo", SP>> \o tok \o <<SP, "$?">>

\* The container shell's expansion of $? in the arguments of a command.
RECURSIVE Expand(_, _)
Expand(s, last) == IF s = <<>> THEN <<>>
                   ELSE (IF Head(s) = "$?" THEN Itoa(last) ELSE <<Head(s)>>)
                        \o Expand(Tail(s), last)

\* The container shell running one newline-terminated command line: the
\* lines it prints and the exit status it leaves in $?.
ShellExec(text, last) ==
    LET cmd == IF text # <<>> /\ text[Len(text)] = NL
               THEN SubSeq(text, 1, Len(text) - 1) ELSE text
    IN  IF cmd = <<"true">> THEN [out |-> <<>>, status |-> 0]
        ELSE IF cmd = <<"false">> THEN [out |-> <<>>, status |-> 1]
        ELSE IF HasPrefix(cmd, <<"echo", SP>>)
        THEN [out |-> << Expand(SubSeq(cmd, 3, Len(cmd)), last) \o <<NL>> >>,
              status |-> 0]
        ELSE [out |-> << <<"sh: not found", NL>> >>, status |-> 127]

\* The channel as it would be were it made with room for a batch's lines.
ChanCapBuffered == MaxBatch + 1

\* make(chan string): the capacity of the session's channel.
ChanCap == 0

\* A line in flight: its text and the number (in the order written to the
\* transport) of the command whose run printed it.
NoLine == [text |-> <<>>, cmd |-> 0]

NoRet == [n |-> 0, code |-> 0, recv |-> <<>>, err |-> FALSE,
          matched |-> NoLine, taken |-> <<>>, batch |-> <<>>, token |-> <<>>,
          sentAt |-> 0]

NoSend == [n |-> 0, state |-> "unattached", cmds |-> <<>>, outcome |-> "none"]

\* ---------------------------------------------------------- step parser: data
\* A decoded YAML value: kind k and, by kind, text s, integer i, boolean b
\* or the ordered items m of a mapping (yaml.MapSlice).
YNode(k, t, i, b, m) == [k |-> k, s |-> t, i |-> i, b |-> b, m |-> m]

YStr(t) == YNode("str", t, 0, FALSE, <<>>)

YInt(i) == YNode("int", <<>>, i, FALSE, <<>>)

YBool(b) == YNode("bool", <<>>, 0, b, <<>>)

YNull == YNode("null", <<>>, 0, FALSE, <<>>)

YList == YNode("list", <<>>, 0, FALSE, <<>>)

YMap(items) == YNode("map", <<>>, 0, FALSE, items)

\* yaml.MapItem
Item(key, val) == [key |-> key, val |-> val]

\* strconv.FormatBool
FormatBool(b) == IF b THEN <<"true">> ELSE <<"false">>

\* ifaceToString: string, int and bool values as text, anything else "".
ifaceToString(v) ==
    IF v.k = "str" THEN v.s
    ELSE IF v.k = "int" THEN Itoa(v.i)
    ELSE IF v.k = "bool" THEN FormatBool(v.b)
    ELSE <<>>

\* A map[string]string: nil, or made, with its entries.
NilMap == [nil |-> TRUE, m |-> <<>>]

MadeMap(f) == [nil |-> FALSE, m |-> f]

EmptyEntries == [x \in {} |-> <<>>]

\* stepData after "for _, item := range items { stepData[item.Key] =
\* ifaceToString(item.Value) }": a later item overwrites an earlier one.
RECURSIVE Assign(_, _)
Assign(f, items) ==
    IF items = <<>> THEN f
    ELSE LET it == Head(items)
         IN  Assign([x \in (DOMAIN f) \cup {it.key} |->
                        IF x = it.key THEN ifaceToString(it.val) ELSE f[x]],
                    Tail(items))

\* delete(stepData, key)
Delete(f, key) == [x \in (DOMAIN f) \ {key} |-> f[x]]

KeyCwd == <<"cwd">>
KeyName == <<"name">>
KeyCheckpoint == <<"checkpoint">>

NoStep == [ID |-> <<>>, Cwd |-> <<>>, Name |-> <<>>, Checkpoint |-> <<>>,
           Data |-> NilMap]

\* What UnmarshalYAML hands back: a Step with a nil error ("step"), an
\* error naming a key ("error"), an index-out-of-range panic ("panic");
\* "none" before the call.
Result(kind, step, key) == [kind |-> kind, step |-> step, key |-> key]

NoResult == Result("none", NoStep, <<>>)

\* err := unmarshal(&r.StepConfig.ID): a scalar decodes into the string.
DecodesAsString(node) == node.k \in {"str", "int", "bool", "null"}

StringOf(node) == ifaceToString(node)

\* topMap[1:] as it would be were the slice taken from the first element.
FlatItemsAll(topMap) == topMap

\* The elements of topMap[1:] that become the step's data in the flat shape.
FlatItems(topMap) == Tail(topMap)

\* The extraction as it would be were delete(stepData, "name") left out.
ExtractKeepName(id, stepData) ==
    [ID         |-> id,
     Cwd        |-> IF KeyCwd \in DOMAIN stepData THEN stepData[KeyCwd] ELSE <<>>,
     Name       |-> IF KeyName \in DOMAIN stepData THEN stepData[KeyName] ELSE <<>>,
     Checkpoint |-> IF KeyCheckpoint \in DOMAIN stepData
                    THEN stepData[KeyCheckpoint] ELSE <<>>,
     Data       |-> MadeMap(Delete(Delete(stepData, KeyCwd), KeyCheckpoint))]

\* The typed fields taken out of stepData: the value goes to the field and
\* the key is deleted from the map.
Extract(id, stepData) ==
    [ID         |-> id,
     Cwd        |-> IF KeyCwd \in DOMAIN stepData THEN stepData[KeyCwd] ELSE <<>>,
     Name       |-> IF KeyName \in DOMAIN stepData THEN stepData[KeyName] ELSE <<>>,
     Checkpoint |-> IF KeyCheckpoint \in DOMAIN stepData
                    THEN stepData[KeyCheckpoint] ELSE <<>>,
     Data       |-> MadeMap(Delete(Delete(Delete(stepData, KeyCwd), KeyName),
                                   KeyCheckpoint))]

\* RawStepConfig.UnmarshalYAML as it would be were the ok of the type
\* assertion item.Value.(yaml.MapSlice) not looked at: a value that is no
\* mapping gives a step without data.
UnmarshalYAMLUnchecked(node) ==
    IF DecodesAsString(node)
    THEN Result("step", [NoStep EXCEPT !.ID = StringOf(node)], <<>>)
    ELSE LET topMap == IF node.k = "map" THEN node.m ELSE <<>>
         IN  IF Len(topMap) = 1
             THEN Result("step",
                         Extract(topMap[1].key,
                                 Assign(EmptyEntries,
                                        IF topMap[1].val.k = "map"
                                        THEN topMap[1].val.m ELSE <<>>)),
                         <<>>)
             ELSE IF Len(topMap) = 0
                  THEN Result("panic", NoStep, <<>>)
                  ELSE Result("step",
                              Extract(topMap[1].key,
                                      Assign(EmptyEntries, FlatItems(topMap))),
                              <<>>)

\* RawStepConfig.UnmarshalYAML on a decoded node.
UnmarshalYAML(node) ==
    IF DecodesAsString(node)
    THEN Result("step", [NoStep EXCEPT !.ID = StringOf(node)], <<>>)
    ELSE LET topMap == IF node.k = "map" THEN node.m ELSE <<>>
         IN  IF Len(topMap) = 1
             THEN IF topMap[1].val.k # "map"
                  THEN Result("error", NoStep, topMap[1].key)
                  ELSE Result("step",
                              Extract(topMap[1].key,
                                      Assign(EmptyEntries, topMap[1].val.m)),
                              <<>>)
             ELSE IF Len(topMap) = 0
                  THEN Result("panic", NoStep, <<>>)
                  ELSE Result("step",
                              Extract(topMap[1].key,
                                      Assign(EmptyEntries, FlatItems(topMap))),
                              <<>>)

\* The three ways a step is written in wercker.yml.
Shapes == {"string", "single", "flat"}

StepIDs == {<<"script">>, <<"cwd">>}

ParamKeys == {KeyCwd, KeyName, KeyCheckpoint, <<"code">>}

ParamVals == {YStr(<<"x">>), YInt(12), YBool(TRUE), YNull, YList}

ParamItems == {Item(k, v) : k \in ParamKeys, v \in ParamVals}

Docs == [id : StepIDs, params : SeqsUpTo(ParamItems, MaxParams)]

NoDoc == [id |-> <<>>, params |-> <<>>]

\* The YAML value of a step with the given identifier and parameters,
\* written in the given shape.
Encode(shape, d) ==
    IF shape = "string" THEN YStr(d.id)
    ELSE IF shape = "single" THEN YMap(<<Item(d.id, YMap(d.params))>>)
    ELSE YMap(<<Item(d.id, YNull)>> \o d.params)

\* -------------------------------------------------------- config parser: data
\* A YAML sequence: its elements, in the order written.
YSeq(elems) == YNode("list", <<>>, 0, FALSE, elems)

\* A *RawStepConfig, a *RawBoxConfig or a *RawPipelineConfig: nil, or a
\* pointer to a value.
Ptr(v) == [nil |-> FALSE, v |-> v]

NilPtr == [nil |-> TRUE, v |-> <<>>]

KeysOf(items) == {items[i].key : i \in DOMAIN items}

\* The value a Go map or struct field ends up with for a key of a mapping:
\* that of the last item with the key.
ValueOf(items, key) ==
    LET at == {i \in DOMAIN items : items[i].key = key}
    IN  items[CHOOSE i \in at : \A j \in at : j <= i].val

\* The keys the documents use, in the order yaml.Marshal writes the keys of
\* a Go map (sorted).
KeyOrder == << <<"after-steps">>, <<"base-path">>, <<"box">>, <<"build">>,
               <<"checkpoint">>, <<"code">>, <<"command-timeout">>,
               <<"cwd">>, <<"deploy">>, <<"id">>, <<"ignore-file">>,
               <<"name">>, <<"no-response-timeout">>, <<"production">>,
               <<"script">>,
               <<"services">>, <<"source-dir">>, <<"staging">>,
               <<"steps">>, <<"tag">> >>

SortedKeys(keys) == SelectSeq(KeyOrder, LAMBDA k : k \in keys)

\* yaml.Marshal(v) for a v decoded into interface{}: a mapping was decoded
\* into a Go map, which keeps one value for each key and no order, and is
\* written with its keys sorted; a sequence keeps its order.
RECURSIVE Marshal(_)
Marshal(node) ==
    IF node.k = "map"
    THEN LET ks == SortedKeys(KeysOf(node.m))
         IN  YMap([i \in 1..Len(ks) |->
                      Item(ks[i], Marshal(ValueOf(node.m, ks[i])))])
    ELSE IF node.k = "list"
    THEN YSeq([i \in 1..Len(node.m) |-> Marshal(node.m[i])])
    ELSE node

\* What a decode hands back: "ok", "typeerr" (a *yaml.TypeError), "error"
\* (any other error, naming a key) or "panic"; v is the value decoded.
Decoded(kind, v, key) == [kind |-> kind, v |-> v, key |-> key]

\* yaml decoding the elements of a sequence into []*RawStepConfig, in
\* order: a null element is a nil pointer, any other goes through
\* RawStepConfig.UnmarshalYAML, whose error or panic ends the decode.
RECURSIVE StepElems(_, _)
StepElems(elems, acc) ==
    IF elems = <<>> THEN Decoded("ok", acc, <<>>)
    ELSE IF Head(elems).k = "null"
    THEN StepElems(Tail(elems), Append(acc, NilPtr))
    ELSE LET r == UnmarshalYAML(Head(elems))
         IN  IF r.kind = "step"
             THEN StepElems(Tail(elems), Append(acc, Ptr(r.step)))
             ELSE Decoded(r.kind, <<>>, r.key)

\* yaml decoding a value into RawStepsConfig or []*RawStepConfig: null is
\* the nil slice, a scalar or a mapping is a type error.
UnmarshalSteps(node) ==
    IF node.k = "null" THEN Decoded("ok", <<>>, <<>>)
    ELSE IF node.k = "list" THEN StepElems(node.m, <<>>)
    ELSE Decoded("typeerr", <<>>, <<>>)

\* BoxConfig, as far as ID, Name and Tag.
NoBox == [ID |-> <<>>, Name |-> <<>>, Tag |-> <<>>]

KeyID == <<"id">>
KeyTag == <<"tag">>

\* A string field of a struct: the text of the last item with the field's
\* key ("" for null), the field's zero value when no item has it.
StringField(items, key) ==
    IF key \in KeysOf(items) THEN StringOf(ValueOf(items, key)) ELSE <<>>

\* Some item with the key holds a value that does not decode into a string.
NotAString(items, key) ==
    \E i \in DOMAIN items :
        items[i].key = key /\ ~DecodesAsString(items[i].val)

\* err = unmarshal(&r.BoxConfig): a mapping decodes into the struct's
\* fields, anything else is a type error.
UnmarshalBoxStruct(node) ==
    IF node.k # "map" THEN Decoded("typeerr", NoBox, <<>>)
    ELSE IF \E key \in {KeyID, KeyName, KeyTag} : NotAString(node.m, key)
    THEN Decoded("typeerr", NoBox, <<>>)
    ELSE Decoded("ok", [ID   |-> StringField(node.m, KeyID),
                        Name |-> StringField(node.m, KeyName),
                        Tag  |-> StringField(node.m, KeyTag)], <<>>)

\* RawBoxConfig.UnmarshalYAML as it would be without the attempt to
\* unmarshal the value as a string into ID.
RawBoxConfig_StructOnly(node) == UnmarshalBoxStruct(node)

\* RawBoxConfig.UnmarshalYAML: first the value as a string into ID,
\* otherwise the whole struct.
RawBoxConfig_UnmarshalYAML(node) ==
    IF DecodesAsString(node)
    THEN Decoded("ok", [NoBox EXCEPT !.ID = StringOf(node)], <<>>)
    ELSE UnmarshalBoxStruct(node)

\* yaml decoding a value into *RawBoxConfig: null is the nil pointer.
UnmarshalBoxPtr(node) ==
    IF node.k = "null" THEN Decoded("ok", NilPtr, <<>>)
    ELSE LET r == RawBoxConfig_UnmarshalYAML(node)
         IN  Decoded(r.kind, Ptr(r.v), <<>>)

\* yaml decoding a value into []*RawBoxConfig.
UnmarshalBoxes(node) ==
    IF node.k = "null" THEN Decoded("ok", <<>>, <<>>)
    ELSE IF node.k # "list" THEN Decoded("typeerr", <<>>, <<>>)
    ELSE IF \E i \in DOMAIN node.m : UnmarshalBoxPtr(node.m[i]).kind # "ok"
    THEN Decoded("typeerr", <<>>, <<>>)
    ELSE Decoded("ok", [i \in 1..Len(node.m) |-> UnmarshalBoxPtr(node.m[i]).v],
                 <<>>)

SLASH == "/"

\* strings.HasSuffix
HasSuffix(s, suffix) ==
    /\ Len(s) >= Len(suffix)
    /\ SubSeq(s, Len(s) - Len(suffix) + 1, Len(s)) = suffix

\* strings.TrimSuffix as it would be were every trailing suffix removed.
RECURSIVE TrimSuffixAll(_, _)
TrimSuffixAll(s, suffix) ==
    IF suffix # <<>> /\ HasSuffix(s, suffix)
    THEN TrimSuffixAll(SubSeq(s, 1, Len(s) - Len(suffix)), suffix)
    ELSE s

\* strings.TrimSuffix: s without the suffix when it ends with it, else s.
TrimSuffix(s, suffix) ==
    IF HasSuffix(s, suffix) THEN SubSeq(s, 1, Len(s) - Len(suffix)) ELSE s

KeyBox == <<"box">>
KeyServices == <<"services">>
KeySteps == <<"steps">>
KeyAfterSteps == <<"after-steps">>
KeyBasePath == <<"base-path">>

\* pipelineReservedWords as it would be without "after-steps".
pipelineReservedWordsShort == {KeyBox, KeyServices, KeySteps, KeyBasePath}

pipelineReservedWords ==
    {KeyBox, KeyServices, KeySteps, KeyAfterSteps, KeyBasePath}

\* PipelineConfig after &PipelineConfig{StepsMap: make(...)}.
NoPipeline == [Box |-> NilPtr, Steps |-> <<>>, AfterSteps |-> <<>>,
               StepsMap |-> EmptyEntries, Services |-> <<>>,
               BasePath |-> <<>>]

\* yaml decoding one item of the section into the PipelineConfig field its
\* key names; an item with any other key is left alone.
PipelineField(item) ==
    IF item.key = KeyBox THEN UnmarshalBoxPtr(item.val)
    ELSE IF item.key \in {KeySteps, KeyAfterSteps}
    THEN UnmarshalSteps(item.val)
    ELSE IF item.key = KeyServices THEN UnmarshalBoxes(item.val)
    ELSE IF item.key = KeyBasePath
    THEN IF DecodesAsString(item.val)
         THEN Decoded("ok", StringOf(item.val), <<>>)
         ELSE Decoded("typeerr", <<>>, <<>>)
    ELSE Decoded("ok", <<>>, <<>>)

\* The field's value after a decode without errors.
PipelineFieldValue(items, key, zero) ==
    IF key \in KeysOf(items)
    THEN PipelineField(Item(key, ValueOf(items, key))).v
    ELSE zero

\* err := unmarshal(r.PipelineConfig): the items are decoded in the order
\* written; an error of a step or a panic ends the decode there, type
\* errors are collected and returned at the end.
UnmarshalPipelineStruct(node) ==
    IF node.k # "map" THEN Decoded("typeerr", NoPipeline, <<>>)
    ELSE LET items == node.m
             hard  == {i \in DOMAIN items :
                          PipelineField(items[i]).kind \in {"error", "panic"}}
         IN  IF hard # {}
             THEN LET first == CHOOSE i \in hard : \A j \in hard : i <= j
                      r     == PipelineField(items[first])
                  IN  Decoded(r.kind, NoPipeline, r.key)
             ELSE IF \E i \in DOMAIN items :
                        PipelineField(items[i]).kind = "typeerr"
             THEN Decoded("typeerr", NoPipeline, <<>>)
             ELSE Decoded("ok",
                    [Box        |-> PipelineFieldValue(items, KeyBox, NilPtr),
                     Steps      |-> PipelineFieldValue(items, KeySteps, <<>>),
                     AfterSteps |-> PipelineFieldValue(items, KeyAfterSteps,
                                                       <<>>),
                     StepsMap   |-> EmptyEntries,
                     Services   |-> PipelineFieldValue(items, KeyServices,
                                                       <<>>),
                     BasePath   |-> PipelineFieldValue(items, KeyBasePath,
                                                       <<>>)],
                    <<>>)

\* yaml.Marshal(v) and yaml.Unmarshal(b, &otherSteps) for the value of an
\* extra key.
OtherSteps(v) == UnmarshalSteps(Marshal(v))

\* RawPipelineConfig.UnmarshalYAML: every way the call can end.  The loop
\* "for k, v := range m" visits the keys in an order Go leaves open, so
\* with several values that are no list of steps the error may name any of
\* them, or a panicking value may be reached first.
RawPipelineConfig_UnmarshalYAML(node) ==
    LET s == UnmarshalPipelineStruct(node)
    IN  IF s.kind # "ok" THEN {s}
        ELSE LET p     == [s.v EXCEPT !.BasePath = TrimSuffix(@, <<SLASH>>)]
                 extra == KeysOf(node.m) \ pipelineReservedWords
                 o     == [k \in extra |-> OtherSteps(ValueOf(node.m, k))]
                 bad   == {k \in extra : o[k].kind \in {"typeerr", "error"}}
                 pan   == {k \in extra : o[k].kind = "panic"}
             IN  IF bad = {} /\ pan = {}
                 THEN {Decoded("ok",
                               [p EXCEPT !.StepsMap = [k \in extra |-> o[k].v]],
                               <<>>)}
                 ELSE {Decoded("typeerr", NoPipeline, k) : k \in bad}
                      \cup {Decoded("panic", NoPipeline, <<>>) : k \in pan}

KeyCommandTimeout == <<"command-timeout">>
KeyNoResponseTimeout == <<"no-response-timeout">>
KeySourceDir == <<"source-dir">>
KeyIgnoreFile == <<"ignore-file">>

configReservedWords ==
    {KeyBox, KeyCommandTimeout, KeyNoResponseTimeout, KeyServices,
     KeySourceDir}

\* Config after &Config{PipelinesMap: make(...)}.
NoConfig == [Box |-> NilPtr, CommandTimeout |-> 0, NoResponseTimeout |-> 0,
             Services |-> <<>>, SourceDir |-> <<>>, IgnoreFile |-> <<>>,
             PipelinesMap |-> EmptyEntries]

\* An int field of Config: the last item's integer, zero otherwise.
IntField(items, key) ==
    IF key \in KeysOf(items) /\ ValueOf(items, key).k = "int"
    THEN ValueOf(items, key).i ELSE 0

\* A string field of Config: a value that is no scalar leaves it alone.
ConfigString(items, key) ==
    IF key \in KeysOf(items) /\ DecodesAsString(ValueOf(items, key))
    THEN StringOf(ValueOf(items, key)) ELSE <<>>

\* err := unmarshal(r.Config), whose error is not looked at: every field
\* whose value decodes is set.
UnmarshalConfigStruct(node) ==
    IF node.k # "map" THEN NoConfig
    ELSE LET items == node.m
         IN  [Box |-> IF KeyBox \in KeysOf(items)
                      THEN UnmarshalBoxPtr(ValueOf(items, KeyBox)).v
                      ELSE NilPtr,
              CommandTimeout    |-> IntField(items, KeyCommandTimeout),
              NoResponseTimeout |-> IntField(items, KeyNoResponseTimeout),
              Services |-> IF KeyServices \in KeysOf(items)
                           THEN UnmarshalBoxes(ValueOf(items, KeyServices)).v
                           ELSE <<>>,
              SourceDir    |-> ConfigString(items, KeySourceDir),
              IgnoreFile   |-> ConfigString(items, KeyIgnoreFile),
              PipelinesMap |-> EmptyEntries]

\* m[key] = v
Put(m, key, v) ==
    [x \in (DOMAIN m) \cup {key} |-> IF x = key THEN v ELSE m[x]]

\* err = unmarshal(&m) into map[string]*RawPipelineConfig, item by item:
\* null is stored as the nil pointer; a value whose UnmarshalYAML returns
\* a *yaml.TypeError is not stored and the decode goes on; any other
\* error, or a panic, ends it.
RECURSIVE UnmarshalPipelines(_, _)
UnmarshalPipelines(items, m) ==
    IF items = <<>> THEN {Decoded("ok", m, <<>>)}
    ELSE LET it == Head(items)
         IN  IF it.val.k = "null"
             THEN UnmarshalPipelines(Tail(items), Put(m, it.key, NilPtr))
             ELSE UNION {
                    IF r.kind = "ok"
                    THEN UnmarshalPipelines(Tail(items),
                                            Put(m, it.key, Ptr(r.v)))
                    ELSE IF r.kind = "typeerr"
                    THEN UnmarshalPipelines(Tail(items), m)
                    ELSE {Decoded(r.kind, EmptyEntries, r.key)} :
                    r \in RawPipelineConfig_UnmarshalYAML(it.val)}

\* RawConfig.UnmarshalYAML: every way the call can end.  A type error of
\* unmarshal(&m) is passed over; the entries of m whose key is not a
\* reserved word go to PipelinesMap.
RawConfig_UnmarshalYAML(node) ==
    LET c  == UnmarshalConfigStruct(node)
        ms == IF node.k = "map"
              THEN UnmarshalPipelines(node.m, EmptyEntries)
              ELSE {Decoded("ok", EmptyEntries, <<>>)}
    IN  {IF r.kind = "ok"
         THEN Decoded("ok",
                      [c EXCEPT !.PipelinesMap =
                          [k \in (DOMAIN r.v) \ configReservedWords |->
                              r.v[k]]],
                      <<>>)
         ELSE Decoded(r.kind, NoConfig, r.key) : r \in ms}

\* A Go error: nil, or one with a text.
NilErr == [nil |-> TRUE, text |-> <<>>]

Err(text) == [nil |-> FALSE, text |-> text]

\* fmt.Errorf("Step %s is empty", item.Key)
StepEmptyText(key) == <<"Step", SP>> \o key \o <<SP, "is", SP, "empty">>

\* fmt.Errorf("Your wercker.yml is empty.")
EmptyText == <<"Your wercker.yml is empty.">>

\* The text of the error yaml.Unmarshal returns for a document that is no
\* YAML.
SyntaxText == <<"yaml:", SP, "did not find expected key">>

\* fmt.Errorf("Error parsing your wercker.yml:\n  %s", errStr)
Wrap(errStr) == <<"Error parsing your wercker.yml:", NL, SP, SP>> \o errStr

\* What a call of ConfigFromYaml does: it returns a *Config and an error,
\* or it panics.
Return(config, err) == [kind |-> "return", config |-> config, err |-> err]

Panic == [kind |-> "panic", config |-> NilPtr, err |-> NilErr]

\* A file: text that is no YAML ("malformed"), text with no document
\* ("empty"), or a document with its value.
File(syntax, node) == [syntax |-> syntax, node |-> node]

\* ConfigFromYaml: every way the call can end.  yaml.Unmarshal leaves
\* m.Config nil for no document and for a null one, and IsValid turns that
\* into an error.
ConfigFromYaml(file) ==
    IF file.syntax = "malformed" THEN {Return(NilPtr, Err(Wrap(SyntaxText)))}
    ELSE IF file.syntax = "empty" \/ file.node.k = "null"
    THEN {Return(NilPtr, Err(Wrap(EmptyText)))}
    ELSE {IF r.kind = "ok" THEN Return(Ptr(r.v), NilErr)
          ELSE IF r.kind = "error"
          THEN Return(NilPtr, Err(Wrap(StepEmptyText(r.key))))
          ELSE Panic : r \in RawConfig_UnmarshalYAML(file.node)}

\* ------------------------------------------------------ config parser: inputs
\* Sequences of at most n items with no key twice.
DistinctKeys(S, n) ==
    {q \in SeqsUpTo(S, n) :
        \A i, j \in DOMAIN q : q[i].key = q[j].key => i = j}

KeyScript == <<"script">>
KeyCode == <<"code">>

\* A step in each shape of the comment on RawStepConfig.UnmarshalYAML, one
\* with no parameters and an empty mapping.
StepString == YStr(<<"npm-install">>)
StepSingle == YMap(<<Item(KeyScript, YMap(<<Item(KeyCode, YStr(<<"x">>))>>))>>)
StepFlat == YMap(<<Item(KeyScript, YNull), Item(KeyCode, YStr(<<"x">>))>>)
StepNoParams == YMap(<<Item(KeyScript, YNull)>>)
StepNoKeys == YMap(<<>>)
StepList == YSeq(<<YStr(<<"x">>)>>)

StepSamples == {StepString, StepSingle, StepFlat, StepNoParams, StepNoKeys}

StepLists == {YSeq(l) : l \in SeqsUpTo(StepSamples, MaxSteps)}

\* Steps as yaml may hand them to RawStepConfig.UnmarshalYAML.
RawSteps ==
    StepSamples \cup {StepList}
    \cup {YMap(<<Item(id, v)>>) :
            id \in StepIDs,
            v \in ParamVals \cup {YSeq(<<YStr(<<"x">>)>>), YMap(<<>>),
                                  YMap(<<Item(KeyCode, YStr(<<"x">>))>>)}}

BoxItems == {Item(k, v) : k \in {KeyID, KeyName, KeyTag},
                          v \in {YStr(<<"ubuntu">>), YStr(<<>>), YList}}

\* Boxes as yaml may hand them to RawBoxConfig.UnmarshalYAML.
RawBoxes ==
    {YStr(<<>>), YStr(<<"ubuntu">>), YInt(12), YList}
    \cup {YMap(items) : items \in DistinctKeys(BoxItems, MaxKeys)}

KeyStaging == <<"staging">>
KeyProduction == <<"production">>

BasePaths == SeqsUpTo({"app", SLASH}, MaxPath)

SectionItems ==
    {Item(KeyBox, YStr(<<"ubuntu">>)),
     Item(KeyServices, YSeq(<<YStr(<<"redis">>)>>)),
     Item(KeySteps, YSeq(<<StepString>>)),
     Item(KeySteps, YStr(<<"x">>)),
     Item(KeyAfterSteps, YSeq(<<StepSingle>>)),
     Item(KeyBasePath, YStr(<<"app", SLASH>>)),
     Item(KeyStaging, YSeq(<<StepSingle>>)),
     Item(KeyStaging, YStr(<<"x">>)),
     Item(KeyStaging, YSeq(<<StepNoKeys>>)),
     Item(KeyProduction, YSeq(<<StepString>>)),
     Item(KeyProduction, YNull),
     Item(KeyProduction, YInt(12))}

\* Pipeline sections as yaml may hand them to
\* RawPipelineConfig.UnmarshalYAML: one list of steps under a key, one
\* base-path, several keys in every order, and values that are no mapping.
RawPipelines ==
    {YMap(<<Item(k, l)>>) :
        k \in {KeySteps, KeyAfterSteps, KeyStaging}, l \in StepLists}
    \cup {YMap(<<Item(KeyBasePath, YStr(p))>>) : p \in BasePaths}
    \cup {YMap(items) : items \in DistinctKeys(SectionItems, MaxKeys)}
    \cup {YStr(<<"x">>), YList}

KeyBuild == <<"build">>
KeyDeploy == <<"deploy">>

\* Values of top-level keys: scalars, null and pipeline sections: one that
\* parses, one with an extra key that is no list of steps, one with a step
\* without parameters and one with a step without keys.
TopValues ==
    {YStr(<<"x">>), YInt(12), YNull,
     YMap(<<Item(KeySteps, YSeq(<<StepString>>))>>),
     YMap(<<Item(KeySteps, YSeq(<<StepString>>)),
            Item(KeyStaging, YStr(<<"x">>))>>),
     YMap(<<Item(KeySteps, YSeq(<<StepNoParams>>))>>),
     YMap(<<Item(KeySteps, YSeq(<<StepNoKeys>>))>>)}

TopKeys == {KeyBox, KeyServices, KeyCommandTimeout, KeyNoResponseTimeout,
            KeySourceDir, KeyIgnoreFile, KeyBuild, KeyDeploy}

TopItems == {Item(k, v) : k \in TopKeys, v \in TopValues}

\* Files as given to ConfigFromYaml.
Files ==
    {File("empty", YNull), File("malformed", YNull)}
    \cup {File("ok", n) : n \in {YNull, YStr(<<"x">>), YList}}
    \cup {File("ok", YMap(items)) : items \in DistinctKeys(TopItems, MaxKeys)}

\* What is handed to a parser, and what it handed back.
Input(kind, v) == [kind |-> kind, v |-> v]

NoInput == Input("none", <<>>)

Inputs == {Input("step", n) : n \in RawSteps}
          \cup {Input("box", n) : n \in RawBoxes}
          \cup {Input("pipeline", n) : n \in RawPipelines}
          \cup {Input("file", f) : f \in Files}

NoOutput == [kind |-> "none"]

VARIABLES
    ws,         \* Session.ws: 0 is nil, otherwise the connection dialled last
    nconn,      \* connections dialled so far, one ReadToChan goroutine each
    connOpen,   \* connOpen[c]: the stream of connection c is still open
    inbox,      \* inbox[c]: messages the container wrote, not yet received
    rpc,        \* rpc[c]: where reader c stands: "recv" or "send" (ch <- data)
    rdata,      \* rdata[c]: the data reader c holds at ch <- data
    held,       \* the readers standing at ch <- data, oldest Receive first
    chbuf,      \* lines buffered in Session.ch (at most ChanCap)
    wire,       \* messages written to the transport that the shell has not run
    nsent,      \* number of messages ever written to the transport
    nrun,       \* number of messages the shell has run
    shStatus,   \* the shell's $?
    proc,       \* "running", "exited" (log.Fatalln) or "panicked"
    pc,         \* calling task: "idle" or "read" (inside SendChecked's loop)
    calls,      \* calls of Attach, Send and SendChecked so far
    rand,       \* SendChecked's rand
    exitCode,   \* SendChecked's exitCode
    recv,       \* SendChecked's recv
    token,      \* the token the running SendChecked generated
    batch,      \* the commands the running SendChecked was given
    sentAt,     \* number of the running SendChecked's sentinel command
    taken,      \* lines the running SendChecked took from the channel
    ret,        \* what SendChecked returned, until the caller's next call
    lastSend,   \* what Send did, until the caller's next call
    attachRes,  \* result of the last Attach: "none", "ok" or "err"
    readerFailed,  \* a reader's Receive returned an error
    waitingAtFail, \* a SendChecked was in its read loop when that happened
    doc,        \* step parser: identifier and parameters of the step
    parsed,     \* step parser: result of parsing each shape of doc
    yin,        \* config parser: the value handed to a parser
    yout        \* config parser: what the parser handed back

connVars == <<ws, nconn, connOpen, inbox, rpc, rdata, held, chbuf>>

shellVars == <<wire, nsent, nrun, shStatus>>

localVars == <<rand, exitCode, recv, token, batch, sentAt, taken>>

sessVars == <<connVars, shellVars, localVars, proc, pc, calls, ret, lastSend,
              attachRes, readerFailed, waitingAtFail>>

stepVars == <<doc, parsed, yin, yout>>

vars == <<sessVars, stepVars>>

Conns == 1..nconn

\* CreateSession: no connection, an empty channel, no reader.
SessionInit ==
    /\ ws = 0 /\ nconn = 0
    /\ connOpen = <<>> /\ inbox = <<>> /\ rpc = <<>> /\ rdata = <<>>
    /\ held = <<>> /\ chbuf = <<>>
    /\ wire = <<>> /\ nsent = 0 /\ nrun = 0 /\ shStatus = 0
    /\ proc = "running" /\ pc = "idle" /\ calls = 0
    /\ rand = <<>> /\ exitCode = 0 /\ recv = <<>>
    /\ token = <<>> /\ batch = <<>> /\ sentAt = 0 /\ taken = <<>>
    /\ ret = NoRet /\ lastSend = NoSend /\ attachRes = "none"
    /\ readerFailed = FALSE /\ waitingAtFail = FALSE

\* --------------------------------------------------------- session: steps
Running == proc = "running"

\* The state of the session's connection as a caller finds it.
SessionState == IF ws = 0 THEN "unattached"
                ELSE IF connOpen[ws] THEN "attached" ELSE "closed"

\* Attach: dial (ok says whether the dial succeeds); on success keep the
\* connection in s.ws and start a ReadToChan goroutine on it.
Attach(ok) ==
    /\ Running /\ pc = "idle" /\ calls < MaxCalls
    /\ calls' = calls + 1
    /\ IF ok
       THEN /\ nconn' = nconn + 1
            /\ ws' = nconn + 1
            /\ connOpen' = Append(connOpen, TRUE)
            /\ inbox' = Append(inbox, <<>>)
            /\ rpc' = Append(rpc, "recv")
            /\ rdata' = Append(rdata, NoLine)
            /\ attachRes' = "ok"
       ELSE /\ attachRes' = "err"
            /\ UNCHANGED <<nconn, ws, connOpen, inbox, rpc, rdata>>
    /\ ret' = NoRet /\ lastSend' = NoSend
    /\ UNCHANGED <<held, chbuf, shellVars, localVars, proc, pc,
                   readerFailed, waitingAtFail>>
    /\ UNCHANGED stepVars

\* What websocket.Message.Send does for the commands of one Send call:
\* "ok" (all written, or nothing to write), "panic" (s.ws is nil) or
\* "fatal" (the write returns an error and Send calls log.Fatalln).
SendOutcome(cmds) ==
    IF cmds = <<>> THEN "ok"
    ELSE IF ws = 0 THEN "panic"
    ELSE IF ~connOpen[ws] THEN "fatal"
    ELSE "ok"

\* commands[i] + "\n", in the order given.
Written(cmds) == [i \in 1..Len(cmds) |-> cmds[i] \o <<NL>>]

ProcAfter(outcome) == IF outcome = "ok" THEN "running"
                      ELSE IF outcome = "panic" THEN "panicked" ELSE "exited"

\* Send(commands...)
Send(cmds) ==
    /\ Running /\ pc = "idle" /\ calls < MaxCalls
    /\ calls' = calls + 1
    /\ LET o == SendOutcome(cmds)
       IN  /\ lastSend' = [n |-> calls + 1, state |-> SessionState,
                           cmds |-> cmds, outcome |-> o]
           /\ proc' = ProcAfter(o)
           /\ wire' = IF o = "ok" THEN wire \o Written(cmds) ELSE wire
           /\ nsent' = IF o = "ok" THEN nsent + Len(cmds) ELSE nsent
    /\ ret' = NoRet
    /\ UNCHANGED <<connVars, nrun, shStatus, localVars, pc, attachRes,
                   readerFailed, waitingAtFail>>
    /\ UNCHANGED stepVars

\* SendChecked up to its read loop: generate the token, Send(commands),
\* Send the sentinel command.
SendCheckedStart(cmds, tok) ==
    /\ Running /\ pc = "idle" /\ calls < MaxCalls
    /\ calls' = calls + 1
    /\ rand' = tok /\ token' = tok
    /\ exitCode' = 0 /\ recv' = <<>> /\ taken' = <<>>
    /\ batch' = cmds
    /\ ret' = NoRet /\ lastSend' = NoSend
    /\ LET all == Append(cmds, SentinelCommand(tok))
           o   == SendOutcome(all)
       IN  /\ proc' = ProcAfter(o)
           /\ wire' = IF o = "ok" THEN wire \o Written(all) ELSE wire
           /\ nsent' = IF o = "ok" THEN nsent + Len(all) ELSE nsent
           /\ sentAt' = IF o = "ok" THEN nsent + Len(all) ELSE 0
           /\ pc' = IF o = "ok" THEN "read" ELSE "idle"
    /\ UNCHANGED <<connVars, nrun, shStatus, attachRes, readerFailed,
                   waitingAtFail>>
    /\ UNCHANGED stepVars

\* The loop body as it would be were the line appended to recv before the
\* prefix test: the matching line ends up in the returned output.
ConsumeAppendFirst(line) ==
    IF HasPrefix(line.text, rand)
    THEN LET sc == Sscanf(line.text, exitCode)
         IN  /\ ret' = [n |-> calls, code |-> sc.code,
                        recv |-> Append(recv, line.text),
                        err |-> sc.err, matched |-> line,
                        taken |-> Append(taken, line), batch |-> batch,
                        token |-> token, sentAt |-> sentAt]
             /\ pc' = "idle"
             /\ rand' = <<>> /\ exitCode' = 0 /\ recv' = <<>>
             /\ token' = <<>> /\ batch' = <<>> /\ sentAt' = 0 /\ taken' = <<>>
    ELSE /\ recv' = Append(recv, line.text)
         /\ taken' = Append(taken, line)
         /\ UNCHANGED <<rand, exitCode, token, batch, sentAt, ret, pc>>

\* The loop body as it would be were it left on the first line taken,
\* whatever the line: the caller does not wait for its token.
ConsumeGiveUp(line) ==
    LET sc == Sscanf(line.text, exitCode)
    IN  /\ ret' = [n |-> calls, code |-> sc.code, recv |-> recv,
                   err |-> sc.err, matched |-> line,
                   taken |-> Append(taken, line), batch |-> batch,
                   token |-> token, sentAt |-> sentAt]
        /\ pc' = "idle"
        /\ rand' = <<>> /\ exitCode' = 0 /\ recv' = <<>>
        /\ token' = <<>> /\ batch' = <<>> /\ sentAt' = 0 /\ taken' = <<>>

\* The loop body as it would be were the line tested against every token
\* there is rather than the invocation's own.
ConsumeAnyToken(line) ==
    IF \E t \in Tokens : HasPrefix(line.text, t)
    THEN LET sc == Sscanf(line.text, exitCode)
         IN  /\ ret' = [n |-> calls, code |-> sc.code, recv |-> recv,
                        err |-> sc.err, matched |-> line,
                        taken |-> Append(taken, line), batch |-> batch,
                        token |-> token, sentAt |-> sentAt]
             /\ pc' = "idle"
             /\ rand' = <<>> /\ exitCode' = 0 /\ recv' = <<>>
             /\ token' = <<>> /\ batch' = <<>> /\ sentAt' = 0 /\ taken' = <<>>
    ELSE /\ recv' = Append(recv, line.text)
         /\ taken' = Append(taken, line)
         /\ UNCHANGED <<rand, exitCode, token, batch, sentAt, ret, pc>>

\* One turn of SendChecked's loop on the line just taken from s.ch; on a
\* line that starts with rand the function returns and its locals are gone.
Consume(line) ==
    IF HasPrefix(line.text, rand)
    THEN LET sc == Sscanf(line.text, exitCode)
         IN  /\ ret' = [n |-> calls, code |-> sc.code, recv |-> recv,
                        err |-> sc.err, matched |-> line,
                        taken |-> Append(taken, line), batch |-> batch,
                        token |-> token, sentAt |-> sentAt]
             /\ pc' = "idle"
             /\ rand' = <<>> /\ exitCode' = 0 /\ recv' = <<>>
             /\ token' = <<>> /\ batch' = <<>> /\ sentAt' = 0 /\ taken' = <<>>
    ELSE /\ recv' = Append(recv, line.text)
         /\ taken' = Append(taken, line)
         /\ UNCHANGED <<rand, exitCode, token, batch, sentAt, ret, pc>>

\* The loop as it would be were the sentinel command written again on
\* every turn.
SendCheckedRecvResend ==
    /\ Running /\ pc = "read"
    /\ IF chbuf # <<>>
       THEN /\ Consume(Head(chbuf))
            /\ chbuf' = Tail(chbuf)
            /\ UNCHANGED <<rpc, rdata, held>>
       ELSE \E c \in Conns :
                /\ rpc[c] = "send"
                /\ Consume(rdata[c])
                /\ rpc' = [rpc EXCEPT ![c] = "recv"]
                /\ rdata' = [rdata EXCEPT ![c] = NoLine]
                /\ held' = SelectSeq(held, LAMBDA h : h # c)
                /\ UNCHANGED chbuf
    /\ wire' = wire \o Written(<<SentinelCommand(token)>>)
    /\ nsent' = nsent + 1
    /\ UNCHANGED <<ws, nconn, connOpen, inbox, nrun, shStatus, proc, calls,
                   lastSend, attachRes, readerFailed, waitingAtFail>>
    /\ UNCHANGED stepVars

\* line := <- s.ch, then the body of the loop.
SendCheckedRecv ==
    /\ Running /\ pc = "read"
    /\ IF chbuf # <<>>
       THEN /\ Consume(Head(chbuf))
            /\ chbuf' = Tail(chbuf)
            /\ UNCHANGED <<rpc, rdata, held>>
       ELSE \E c \in Conns :
                /\ rpc[c] = "send"
                /\ Consume(rdata[c])
                /\ rpc' = [rpc EXCEPT ![c] = "recv"]
                /\ rdata' = [rdata EXCEPT ![c] = NoLine]
                /\ held' = SelectSeq(held, LAMBDA h : h # c)
                /\ UNCHANGED chbuf
    /\ UNCHANGED <<ws, nconn, connOpen, inbox, shellVars, proc, calls,
                   lastSend, attachRes, readerFailed, waitingAtFail>>
    /\ UNCHANGED stepVars

\* One turn of ReadToChan's loop on connection c: Receive, then either
\* log.Fatalln(err) or ch <- data.
ReadToChan(c) ==
    /\ Running /\ rpc[c] = "recv"
    /\ IF inbox[c] # <<>>
       THEN /\ inbox' = [inbox EXCEPT ![c] = Tail(inbox[c])]
            /\ IF Len(chbuf) < ChanCap
               THEN /\ chbuf' = Append(chbuf, Head(inbox[c]))
                    /\ UNCHANGED <<rpc, rdata, held>>
               ELSE /\ rpc' = [rpc EXCEPT ![c] = "send"]
                    /\ rdata' = [rdata EXCEPT ![c] = Head(inbox[c])]
                    /\ held' = Append(held, c)
                    /\ UNCHANGED chbuf
            /\ UNCHANGED <<proc, readerFailed, waitingAtFail>>
       ELSE /\ ~connOpen[c]
            /\ proc' = "exited"
            /\ readerFailed' = TRUE
            /\ waitingAtFail' = (pc = "read")
            /\ UNCHANGED <<inbox, chbuf, rpc, rdata, held>>
    /\ UNCHANGED <<ws, nconn, connOpen, shellVars, localVars, pc, calls, ret,
                   lastSend, attachRes>>
    /\ UNCHANGED stepVars

\* The container's shell runs the next command line it was sent and its
\* output goes to every open attachment.
ShellRun ==
    /\ Running /\ wire # <<>>
    /\ LET r     == ShellExec(Head(wire), shStatus)
           lines == [j \in 1..Len(r.out) |->
                        [text |-> r.out[j], cmd |-> nrun + 1]]
       IN  /\ wire' = Tail(wire)
           /\ nrun' = nrun + 1
           /\ shStatus' = r.status
           /\ inbox' = [c \in Conns |->
                           IF connOpen[c] THEN inbox[c] \o lines ELSE inbox[c]]
    /\ UNCHANGED <<ws, nconn, connOpen, rpc, rdata, held, chbuf, nsent,
                   localVars, proc, pc, calls, ret, lastSend, attachRes,
                   readerFailed, waitingAtFail>>
    /\ UNCHANGED stepVars

\* The stream of connection c closes (container gone, network failure).
StreamClose(c) ==
    /\ Running /\ connOpen[c]
    /\ connOpen' = [connOpen EXCEPT ![c] = FALSE]
    /\ UNCHANGED <<ws, nconn, inbox, rpc, rdata, held, chbuf, shellVars,
                   localVars, proc, pc, calls, ret, lastSend, attachRes,
                   readerFailed, waitingAtFail>>
    /\ UNCHANGED stepVars

\* ------------------------------------------------------ step parser: steps
\* yaml hands the step written in one shape to UnmarshalYAML.  A bare
\* string carries no parameters.
UnmarshalStep(shape) ==
    /\ parsed[shape].kind = "none"
    /\ shape = "string" => doc.params = <<>>
    /\ parsed' = [parsed EXCEPT ![shape] = UnmarshalYAML(Encode(shape, doc))]
    /\ UNCHANGED <<doc, yin, yout>>
    /\ UNCHANGED sessVars

\* yaml hands a step, a box or a pipeline section to its UnmarshalYAML.
UnmarshalRawStep ==
    /\ yin.kind = "step" /\ yout = NoOutput
    /\ yout' = UnmarshalYAML(yin.v)
    /\ UNCHANGED <<doc, parsed, yin>>
    /\ UNCHANGED sessVars

UnmarshalBox ==
    /\ yin.kind = "box" /\ yout = NoOutput
    /\ yout' = RawBoxConfig_UnmarshalYAML(yin.v)
    /\ UNCHANGED <<doc, parsed, yin>>
    /\ UNCHANGED sessVars

UnmarshalPipeline ==
    /\ yin.kind = "pipeline" /\ yout = NoOutput
    /\ yout' \in RawPipelineConfig_UnmarshalYAML(yin.v)
    /\ UNCHANGED <<doc, parsed, yin>>
    /\ UNCHANGED sessVars

\* A caller hands a file to ConfigFromYaml.
ReadConfig ==
    /\ yin.kind = "file" /\ yout = NoOutput
    /\ yout' \in ConfigFromYaml(yin.v)
    /\ UNCHANGED <<doc, parsed, yin>>
    /\ UNCHANGED sessVars

Init == /\ SessionInit
        /\ doc = NoDoc
        /\ parsed = [sh \in Shapes |-> NoResult]
        /\ yin = NoInput /\ yout = NoOutput

Next == \/ \E ok \in BOOLEAN : Attach(ok)
        \/ \E cmds \in Batches : Send(cmds)
        \/ \E cmds \in Batches, tok \in Tokens : SendCheckedStart(cmds, tok)
        \/ SendCheckedRecv
        \/ \E c \in Conns : ReadToChan(c)
        \/ ShellRun
        \/ \E c \in Conns : StreamClose(c)

Spec == Init /\ [][Next]_vars

StepInit == /\ SessionInit
            /\ doc \in Docs
            /\ parsed = [sh \in Shapes |-> NoResult]
            /\ yin = NoInput /\ yout = NoOutput

StepNext == \E shape \in Shapes : UnmarshalStep(shape)

StepSpec == StepInit /\ [][StepNext]_vars

ConfigInit == /\ SessionInit
              /\ doc = NoDoc
              /\ parsed = [sh \in Shapes |-> NoResult]
              /\ yin \in Inputs /\ yout = NoOutput

ConfigNext == \/ UnmarshalRawStep
              \/ UnmarshalBox
              \/ UnmarshalPipeline
              \/ ReadConfig

ConfigSpec == ConfigInit /\ [][ConfigNext]_vars

\* ------------------------------------------------------------- properties
Returned == ret.n # 0

Texts(ls) == [i \in 1..Len(ls) |-> ls[i].text]

Front(q) == SubSeq(q, 1, Len(q) - 1)

\* The line the shell printed when it ran this invocation's own sentinel.
MatchedOwnSentinel == ret.matched.cmd = ret.sentAt

\* The exit status the shell reports for a command, whatever ran before it.
StatusOf(cmd) == ShellExec(cmd \o <<NL>>, 0).status

C2_OutputIsLinesBeforeSentinel ==
    /\ pc = "read" =>
          /\ recv = Texts(taken)
          /\ \A i \in 1..Len(taken) : ~HasPrefix(taken[i].text, token)
    /\ pc = "idle" => taken = <<>>
    /\ Returned =>
          /\ ret.taken # <<>>
          /\ ret.matched = ret.taken[Len(ret.taken)]
          /\ HasPrefix(ret.matched.text, ret.token)
          /\ ret.recv = Texts(Front(ret.taken))
          /\ \A i \in 1..(Len(ret.taken) - 1) :
                ~HasPrefix(ret.taken[i].text, ret.token)

C2_Witness ==
    /\ Returned /\ ~ret.err
    /\ ret.recv = << <<"a", NL>>, <<"sh: not found", NL>> >>

\* A line that carries the token's word, a space and a decimal integer.
CarriesStatus(text) ==
    \E k \in 1..Len(text), n \in 0..255 :
        /\ \A i \in 1..k : text[i] \notin {SP, NL}
        /\ text = SubSeq(text, 1, k) \o <<SP>> \o Itoa(n) \o <<NL>>

\* C7: when the first line starting with the token carries no parseable
\* integer status, SendChecked returns a non-nil error and the lines taken
\* before that line; it never returns status 0 with a nil error for it.
C7_MalformedStatusIsError ==
    (Returned /\ ~CarriesStatus(ret.matched.text))
        => /\ ret.err
           /\ ret.recv = Texts(Front(ret.taken))

C7_Witness ==
    /\ Returned /\ ret.err
    /\ ret.matched.text = <<"T1", NL>>
    /\ ret.recv = << <<"a", NL>> >>

\* C3: lines reach the consumer in the order the readers received them:
\* whenever the consumer takes a line from a reader, that reader holds the
\* line received before every other line not yet taken.
C3_ArrivalOrder ==
    [][\A c \in Conns : (rpc[c] = "send" /\ rpc'[c] = "recv") => held[1] = c]_vars

C5_ReaderFailureLeavesProcessRunning ==
    readerFailed => proc = "running"

\* C6: a SendChecked that is waiting for a line when the stream closes and
\* its reader fails can still take its next step, the return of an error.
C6_WaitingSendCheckedCanReturn ==
    (readerFailed /\ pc = "read") => ENABLED SendCheckedRecv

\* C8: a Send on a session that is not attached reports an error to its
\* caller (and writes nothing).
C8_SendUnattachedReportsError ==
    (lastSend.n # 0 /\ lastSend.state = "unattached")
        => lastSend.outcome = "error"

Done(shape) == parsed[shape].kind # "none"

IsStep(shape) == parsed[shape].kind = "step"

\* C9 as claimed: whatever shapes the step was written in, the parses give
\* the identical Step, empty parameter set included.
C9_AllShapesIdentical ==
    \A a, b \in Shapes :
        (Done(a) /\ Done(b)) => (IsStep(a) /\ parsed[a] = parsed[b])

\* C9 as amended: with parameters, the single-key mapping and the flat
\* mapping give the identical Step.  Without parameters the bare string
\* gives a Step with the identifier, empty typed fields and a nil Data; the
\* single-key mapping with an empty mapping gives the same Step but for a
\* made, empty Data; the flat mapping is a one-key mapping with a null value
\* and is refused with an error naming the identifier.
C9_ShapesAgreeWithParameters ==
    /\ (doc.params # <<>> /\ Done("single") /\ Done("flat"))
          => (IsStep("single") /\ parsed["single"] = parsed["flat"])
    /\ (doc.params = <<>> /\ Done("string"))
          => (IsStep("string")
              /\ parsed["string"].step = [NoStep EXCEPT !.ID = doc.id])
    /\ (doc.params = <<>> /\ Done("single"))
          => (IsStep("single")
              /\ parsed["single"].step =
                    [NoStep EXCEPT !.ID = doc.id, !.Data = MadeMap(EmptyEntries)])
    /\ (doc.params = <<>> /\ Done("flat"))
          => (parsed["flat"].kind = "error" /\ parsed["flat"].key = doc.id)

C9_Witness ==
    /\ Len(doc.params) = 2
    /\ doc.params[1].key = KeyCwd /\ doc.params[2].key = <<"code">>
    /\ doc.params[2].val = YInt(12)
    /\ IsStep("single") /\ IsStep("flat")
    /\ parsed["flat"].step.Data.m[<<"code">>] = <<"1", "2">>

\* The value the parameters give a key: that of the last item with the key.
RECURSIVE LastVal(_, _)
LastVal(items, key) ==
    IF items = <<>> THEN <<>>
    ELSE IF items[Len(items)].key = key
         THEN ifaceToString(items[Len(items)].val)
         ELSE LastVal(SubSeq(items, 1, Len(items) - 1), key)

ParamKeysOf(items) == {items[i].key : i \in 1..Len(items)}

Reserved == {KeyCwd, KeyName, KeyCheckpoint}

\* C10: in a Step parsed from a mapping shape, cwd, name and checkpoint are
\* not keys of Data and their values are in Cwd, Name and Checkpoint; every
\* other parameter key is a key of Data.
C10_ReservedKeysExtracted ==
    \A shape \in {"single", "flat"} :
        IsStep(shape) =>
            LET st == parsed[shape].step
            IN  /\ ~st.Data.nil
                /\ DOMAIN st.Data.m = ParamKeysOf(doc.params) \ Reserved
                /\ st.Cwd = LastVal(doc.params, KeyCwd)
                /\ st.Name = LastVal(doc.params, KeyName)
                /\ st.Checkpoint = LastVal(doc.params, KeyCheckpoint)

C10_Witness ==
    /\ IsStep("flat")
    /\ doc.params = <<Item(KeyName, YStr(<<"x">>)), Item(<<"code">>, YBool(TRUE))>>
    /\ parsed["flat"].step.Name = <<"x">>
    /\ DOMAIN parsed["flat"].step.Data.m = {<<"code">>}

\* ------------------------------------------------- properties: config parser
ParsedPipeline == yin.kind = "pipeline" /\ yout.kind = "ok"

Reverse(q) == [i \in 1..Len(q) |-> q[Len(q) + 1 - i]]

\* C11: in every pipeline section that parses, whatever the order of its
\* keys, none of box, services, steps, after-steps and base-path is a key of
\* StepsMap, and every other key of the section (its value is then a list
\* of steps) is one; the section with its keys in the opposite order gives
\* the same StepsMap keys.
C11_ReservedKeysNotInStepsMap ==
    ParsedPipeline =>
        LET reserved == {<<"box">>, <<"services">>, <<"steps">>,
                         <<"after-steps">>, <<"base-path">>}
            keys     == KeysOf(yin.v.m)
        IN  /\ DOMAIN yout.v.StepsMap = keys \ reserved
            /\ \A r \in RawPipelineConfig_UnmarshalYAML(
                            YMap(Reverse(yin.v.m))) :
                  /\ r.kind = "ok"
                  /\ DOMAIN r.v.StepsMap = keys \ reserved

C11_Witness ==
    /\ ParsedPipeline
    /\ yin.v.m = <<Item(KeyStaging, YSeq(<<StepSingle>>)),
                   Item(KeySteps, YSeq(<<StepString>>))>>
    /\ DOMAIN yout.v.StepsMap = {KeyStaging}
    /\ Len(yout.v.Steps) = 1

ReturnedConfig ==
    yin.kind = "file" /\ yout.kind = "return" /\ ~yout.config.nil

\* C12: in every Config that ConfigFromYaml returns, none of box, services,
\* command-timeout, no-response-timeout, source-dir and ignore-file is a key
\* of PipelinesMap, whatever the key's value and its place among the keys.
C12_RecognizedKeysNotInPipelinesMap ==
    ReturnedConfig =>
        DOMAIN yout.config.v.PipelinesMap
            \cap {<<"box">>, <<"services">>, <<"command-timeout">>,
                  <<"no-response-timeout">>, <<"source-dir">>,
                  <<"ignore-file">>} = {}

\* The text holds the key.
Names(text, key) ==
    \E i \in 1..Len(text) :
        i + Len(key) - 1 <= Len(text)
        /\ SubSeq(text, i, i + Len(key) - 1) = key

\* The extra keys of a pipeline section whose value is no list of steps.
BadExtraKeys(section) ==
    {k \in KeysOf(section.m) \ pipelineReservedWords :
        OtherSteps(ValueOf(section.m, k)).kind \in {"typeerr", "error"}}

\* The keys of a document that name no typed field and whose value does not
\* parse: top-level keys with a scalar or a sequence for a pipeline, and
\* the bad extra keys of the pipeline sections.
OffendingKeys(node) ==
    LET recognized == {KeyBox, KeyServices, KeyCommandTimeout,
                       KeyNoResponseTimeout, KeySourceDir, KeyIgnoreFile}
        top == {k \in KeysOf(node.m) \ recognized :
                   ValueOf(node.m, k).k # "null"}
    IN  {k \in top : ValueOf(node.m, k).k # "map"}
        \cup UNION {BadExtraKeys(ValueOf(node.m, k)) :
                      k \in {t \in top : ValueOf(node.m, t).k = "map"}}

\* C13: whenever a key that names no typed field, at the top level or in a
\* pipeline section, has a value that does not parse, what ConfigFromYaml
\* returns is an error whose text names such a key, and no Config.
C13_BadKeyIsReported ==
    (/\ yin.kind = "file" /\ yin.v.syntax = "ok" /\ yin.v.node.k = "map"
     /\ yout.kind = "return"
     /\ OffendingKeys(yin.v.node) # {})
        => /\ yout.config.nil
           /\ ~yout.err.nil
           /\ \E k \in OffendingKeys(yin.v.node) : Names(yout.err.text, k)

BasePathGiven ==
    /\ ParsedPipeline
    /\ KeyBasePath \in KeysOf(yin.v.m)
    /\ ValueOf(yin.v.m, KeyBasePath).k = "str"

EndsWithSlash(s) == s # <<>> /\ s[Len(s)] = "/"

\* C14 as claimed: the BasePath of a parsed pipeline section never ends
\* with "/".
C14_NoTrailingSlash ==
    BasePathGiven => ~EndsWithSlash(yout.v.BasePath)

\* C14: the BasePath of a parsed pipeline section is the base-path given
\* without its last "/" when it ends with one ("app/" gives "app"), and as
\* given otherwise; so it ends with "/" only when the input ended with "//".
C14_OneTrailingSlashStripped ==
    BasePathGiven =>
        LET given == ValueOf(yin.v.m, KeyBasePath).s
        IN  /\ EndsWithSlash(given) => yout.v.BasePath \o <<"/">> = given
            /\ ~EndsWithSlash(given) => yout.v.BasePath = given
            /\ given = <<"app", "/">> => yout.v.BasePath = <<"app">>

C14_Witness ==
    /\ BasePathGiven
    /\ ValueOf(yin.v.m, KeyBasePath).s = <<"app", "/", "/">>
    /\ yout.v.BasePath = <<"app", "/">>

ParsedBox == yin.kind = "box" /\ yout.kind = "ok"

\* C15 as claimed: every Box of a successful parse has a non-empty ID.
C15_BoxIDNonEmpty ==
    ParsedBox => yout.v.ID # <<>>

\* C15: a box given as a bare string always parses, to the Box with that
\* string as ID and every other field at its default, so its ID is
\* non-empty when the string is; a box given as a mapping that parses has
\* the text of its id key as ID, which is empty when it has no id key.
C15_BoxIDIsStringOrIDKey ==
    /\ (yin.kind = "box" /\ yin.v.k = "str" /\ yout.kind # "none")
          => /\ yout.kind = "ok"
             /\ yout.v = [ID |-> yin.v.s, Name |-> <<>>, Tag |-> <<>>]
    /\ (ParsedBox /\ yin.v.k = "map")
          => yout.v.ID = IF <<"id">> \in KeysOf(yin.v.m)
                         THEN ValueOf(yin.v.m, <<"id">>).s
                         ELSE <<>>

C15_Witness ==
    /\ ParsedBox
    /\ yin.v = YMap(<<Item(KeyName, YStr(<<"ubuntu">>))>>)
    /\ yout.v = [ID |-> <<>>, Name |-> <<"ubuntu">>, Tag |-> <<>>]

ReadFile == yin.kind = "file" /\ yout.kind # "none"

ParsePrefix == <<"Error parsing your wercker.yml:", NL, SP, SP>>

\* C16: ConfigFromYaml on an empty or malformed document returns a nil
\* Config and an error whose text starts with the wercker.yml parse prefix;
\* on every input it returns, and returns either a Config and a nil error
\* or a nil Config and an error.
C16_ConfigOrError ==
    ReadFile =>
        /\ yout.kind = "return"
        /\ yout.config.nil # yout.err.nil
        /\ yin.v.syntax \in {"empty", "malformed"}
              => /\ yout.config.nil
                 /\ HasPrefix(yout.err.text, ParsePrefix)

\* The step handed to the parser is a mapping with one key whose value is
\* null, a scalar or a sequence.
SingleKeyNoMapping ==
    /\ yin.kind = "step" /\ yout.kind # "none"
    /\ yin.v.k = "map" /\ Len(yin.v.m) = 1
    /\ yin.v.m[1].val.k \in {"null", "str", "int", "bool", "list"}

\* C17: parsing a step given as a mapping with one key whose value is no
\* mapping ends with an error whose text names that key, and with no Step.
C17_EmptyStepIsError ==
    SingleKeyNoMapping =>
        /\ yout.kind = "error"
        /\ yout.key = yin.v.m[1].key
        /\ Names(StepEmptyText(yout.key), yin.v.m[1].key)
        /\ yout.step = NoStep

C17_Witness ==
    /\ SingleKeyNoMapping
    /\ yin.v = YMap(<<Item(KeyScript, YSeq(<<YStr(<<"x">>)>>))>>)
    /\ yout.kind = "error" /\ yout.key = KeyScript

\* The steps declared by a sequence, each as RawStepConfig.UnmarshalYAML
\* parses it where it is written, in the order declared.
DeclaredSteps(elems) ==
    [i \in 1..Len(elems) |-> Ptr(UnmarshalYAML(elems[i]).step)]

\* The parsed sequence of steps a key of the section ended in.
StepsUnder(pipeline, key) ==
    IF key = KeySteps THEN pipeline.Steps
    ELSE IF key = KeyAfterSteps THEN pipeline.AfterSteps
    ELSE pipeline.StepsMap[key]

StepKeys == {KeySteps, KeyAfterSteps, KeyStaging, KeyProduction}

\* C18: in a parsed pipeline section Steps, AfterSteps and every StepsMap
\* entry hold exactly the steps declared under the key, in the order
\* declared, duplicates kept.
C18_StepsAsDeclared ==
    ParsedPipeline =>
        \A key \in KeysOf(yin.v.m) \cap StepKeys :
            ValueOf(yin.v.m, key).k = "list"
                => StepsUnder(yout.v, key)
                       = DeclaredSteps(ValueOf(yin.v.m, key).m)

\* ------------------------------------------------ properties: session, cont.
\* C19: the step in which SendChecked enters its read loop has written to
\* the transport every command of the batch with its newline, in the order
\* given, and after them one message "echo <token> $?\n", and has taken no
\* line yet; a line is taken only inside the read loop, and nothing is
\* written there.
C19_WritesThenReads ==
    [][/\ (pc = "idle" /\ pc' = "read") =>
             /\ wire' = wire
                         \o [i \in 1..Len(batch') |-> batch'[i] \o <<"\n">>]
                         \o << <<"echo", " ">> \o token' \o <<" ", "$?", "\n">> >>
             /\ nsent' = nsent + Len(batch') + 1
             /\ taken' = <<>> /\ recv' = <<>>
       /\ (taken' # taken \/ recv' # recv) =>
             \/ pc = "idle" /\ taken' = <<>> /\ recv' = <<>>
             \/ pc = "read" /\ nsent' = nsent
      ]_vars

C19_Witness ==
    /\ pc = "read" /\ taken = <<>>
    /\ batch = << <<"nosuch">>, <<"true">> >>
    /\ wire = << <<"nosuch", NL>>, <<"true", NL>>,
                 <<"echo", SP, "T1", SP, "$?", NL>> >>

\* The ReadToChan goroutines started so far; none of them ends while the
\* process runs.
Readers == Conns

\* C20: whatever Attach calls were made, repeated ones and ones after a
\* failed dial included, the session has at most one background reader
\* feeding s.ch and at most one connection.
C20_OneReaderOneConnection ==
    /\ Cardinality(Readers) <= 1
    /\ nconn <= 1

\* The number, in the order written, of the first command of the running
\* SendChecked's batch (of its sentinel when the batch is empty).
FirstOwn(at, cmds) == at - Len(cmds)

StartsWith(text, tok) ==
    Len(text) >= Len(tok) /\ \A i \in 1..Len(tok) : text[i] = tok[i]

\* No line waits for the consumer: the channel is empty and no reader stands
\* at its send.
NoLineOffered == chbuf = <<>> /\ \A c \in Conns : rpc[c] # "send"

\* C22: SendChecked leaves its loop only by taking a line that starts with
\* its token, on which it returns; with no line offered it has no step at
\* all, however long that lasts: there is no timeout.
C22_ReturnsOnlyOnTokenLine ==
    /\ []((pc = "read" /\ NoLineOffered) => ~ENABLED SendCheckedRecv)
    /\ [][(pc = "read" /\ pc' # "read") =>
             /\ ret'.n = calls
             /\ ret'.matched = ret'.taken[Len(ret'.taken)]
             /\ StartsWith(ret'.matched.text, token)
             /\ ret'.token = token
         ]_vars

\* The container is silent with the stream open: the commands were written,
\* one line of output was taken, the sentinel command has not run, and the
\* caller stands in its loop with no line offered.
C22_Witness ==
    /\ pc = "read" /\ Running /\ NoLineOffered
    /\ nconn = 1 /\ connOpen[1] /\ inbox[1] = <<>>
    /\ Len(taken) = 1
    /\ nrun < sentAt
    /\ ~ENABLED SendCheckedRecv

\* C23 as claimed: a line that holds the token anywhere ends the loop, so
\* no such line is ever among the lines kept as output.
C23_LineWithTokenEndsLoop ==
    /\ pc = "read" => \A i \in DOMAIN recv : ~Names(recv[i], token)
    /\ Returned => \A i \in DOMAIN ret.recv : ~Names(ret.recv[i], ret.token)

\* C23: the loop ends on the first line that starts with the token, be it
\* a line of command output taken before the sentinel's line; a line that
\* holds the token further in is kept as output like any other.
C23_LineStartingWithTokenEndsLoop ==
    /\ pc = "read" => \A i \in DOMAIN recv : ~StartsWith(recv[i], token)
    /\ Returned =>
          /\ StartsWith(ret.matched.text, ret.token)
          /\ \A i \in DOMAIN ret.recv : ~StartsWith(ret.recv[i], ret.token)
          /\ Len(ret.taken) = Len(ret.recv) + 1

\* "echo a T1; echo T1 7" with the token T1: the first line of output is
\* kept, the second ends the loop before the sentinel's line is taken.
C23_Witness ==
    /\ Returned /\ ~MatchedOwnSentinel
    /\ ret.token = <<"T1">>
    /\ ret.recv = << <<"a", SP, "T1", NL>> >>
    /\ ret.matched.text = <<"T1", SP, "7", NL>>
    /\ ret.matched.cmd < ret.sentAt
    /\ ret.code = 7 /\ ~ret.err

\* The exit statuses the shell can leave in $? after one of Commands.
Statuses == {StatusOf(c) : c \in Commands}

\* The lines the shell prints for the sentinel command of a token.
SentinelLines(tok) == {tok \o <<SP>> \o Itoa(s) \o <<NL>> : s \in Statuses}

\* The line was printed for the sentinel of an invocation before the one
\* that wrote its sentinel as command number at after the batch cmds (no
\* command of Commands prints a line of SentinelLines).
EarlierSentinelLine(line, tok, at, cmds) ==
    line.cmd < FirstOwn(at, cmds) /\ line.text \in SentinelLines(tok)

C25_StepParseTotal ==
    (yin.kind = "step" /\ yout.kind # "none")
        => yout.kind \in {"step", "error"}

====
